---- MODULE Spec2Model ----
(***************************************************************************)
(* State-machine model of the geoapi services: the per-project Sample      *)
(* Store (services/samples.py), feature extraction (services/features.py)  *)
(* and the file-level protocol of the store's writers and readers.         *)
(*                                                                         *)
(* samples.py holds two concatenated revisions of the module; Python binds *)
(* each name to its last definition, so the functions in force are those   *)
(* of lines 198-410 and they are the ones modelled here.                   *)
(*                                                                         *)
(* Conventions.  An optional value (Python None / missing key) is a        *)
(* sequence of length at most one: <<>> is None, <<x>> is x.  A string     *)
(* that is normalised by the code is a sequence of one-character strings.  *)
(* A geometry is a closed interval [lo, hi] on a line whose unit is half a *)
(* pixel: pixel p spans [2(p-1), 2p] and has its centre at 2p-1.           *)
(***************************************************************************)
EXTENDS Integers, Sequences, FiniteSets, TLC

VARIABLES
  segLayer,   \* the project's segment layer file: [exists, rows]
  store,      \* the project's samples.geojson: [exists, rows]
  last,       \* the last completed call of the Sample Store API and its return
  dir,        \* the project directory: path -> the inode it names, or "none"
  inodes,     \* inode -> the content of the file, a sequence of chunks
  proc,       \* the concurrent writers of the store: [pc, job, saw, data, fd, off]
  obs,        \* what the concurrent reader (list_samples) last read from the store path
  stack,      \* sentinel_multibanda.tif: [exists, x0, px, count]
  featTable,  \* features_by_segment.parquet: [exists, rows]
  featLast,   \* the last completed call of the stack / segmentation / feature services
  bandFiles,  \* the band rasters B*.tif of the output directory: band -> its grid, if the file exists
  asm,        \* what the last criar_multibanda left: the error, the stack written, the bands used
  rgb,        \* what the last criar_rgb_8bit left: the composite written and its return
  img,        \* an array given to the percentile stretches, and what they returned
  labsFile,   \* classificado.geojson: [exists, rows]
  propFiles,  \* the propagado_*.geojson files: name -> rows
  clock,      \* the wall clock, in seconds
  propLast    \* the last completed call of propagate_labels and its return

storeVars == <<segLayer, store, last>>
concVars == <<dir, inodes, proc, obs>>
featVars == <<stack, featTable, featLast>>
asmVars == <<bandFiles, asm, rgb, img>>
propVars == <<labsFile, propFiles, clock, propLast>>
pipeVars == <<asmVars, propVars>>
vars == <<storeVars, concVars, featVars, pipeVars>>

-----------------------------------------------------------------------------
(* Bounds of the model *)

MaxBatch == 2   \* longest upsert payload
NSegs    == 2   \* the segment layer holds the ids 1..NSegs
NUnknown == 1   \* ids NSegs+1..NSegs+NUnknown are named by inputs but are no segment

-----------------------------------------------------------------------------
(* Optional values and strings *)

None == <<>>
Some(x) == <<x>>

RECURSIVE LStrip(_)
LStrip(s) == IF s # <<>> /\ Head(s) = " " THEN LStrip(Tail(s)) ELSE s

RECURSIVE RStrip(_)
RStrip(s) == IF s # <<>> /\ s[Len(s)] = " " THEN RStrip(SubSeq(s, 1, Len(s) - 1)) ELSE s

\* str.strip()
Strip(s) == RStrip(LStrip(s))

LowerChar(ch) == CASE ch = "W" -> "w" [] ch = "U" -> "u" [] ch = "A" -> "a" [] OTHER -> ch

\* str.lower()
Lower(s) == [i \in DOMAIN s |-> LowerChar(s[i])]

\* str(classe).strip().lower()
NormClasse(raw) == Lower(Strip(raw))

\* str(usuario).strip() if usuario else None
NormUsuario(u) == IF u = None \/ u[1] = <<>> THEN None ELSE Some(Strip(u[1]))

-----------------------------------------------------------------------------
(* Geometry *)

Geom(lo, hi) == [lo |-> lo, hi |-> hi]

\* shapely intersects: closed sets that share at least one point
Intersects(g, h) == g.lo <= h.hi /\ h.lo <= g.hi

\* the polygon of segment s: the pixel s of the grid
SegGeom(s) == Geom(2 * (s - 1), 2 * s)

SegIds == 1..NSegs
InputIds == 1..(NSegs + NUnknown)

NoFile == [exists |-> FALSE, rows |-> <<>>]
File(rows) == [exists |-> TRUE, rows |-> rows]

LayerRows == [s \in SegIds |-> [segment_id |-> s, geometry |-> SegGeom(s)]]

-----------------------------------------------------------------------------
(* Inputs of the Sample Store API *)

RawClasses == { <<"w">>, <<"U", " ">> }
RawUsuarios == { Some(<<"a", " ">>) }
OwnGeoms == { Geom(1, 3) }

\* bare inputs {segment_id, classe, usuario} and inputs that bring a geometry
BareFeatures ==
  [ segment_id : {Some(i) : i \in InputIds},
    classe     : {Some(c) : c \in RawClasses},
    usuario    : {None},
    geometry   : {None} ]

GeomFeatures ==
  [ segment_id : {Some(i) : i \in InputIds},
    classe     : {Some(<<"w">>)},
    usuario    : RawUsuarios,
    geometry   : {Some(g) : g \in OwnGeoms} ]

ValidFeatures == BareFeatures \cup GeomFeatures

InvalidFeatures ==
  { [segment_id |-> None, classe |-> Some(<<"w">>), usuario |-> None, geometry |-> None],
    [segment_id |-> Some(1), classe |-> None, usuario |-> None, geometry |-> None] }

Features == ValidFeatures \cup InvalidFeatures

\* the input {segment_id, classe} of upsert_samples_from_ids, and a payload of one input
Bare(s, c) == [segment_id |-> Some(s), classe |-> Some(c), usuario |-> None, geometry |-> None]
OneInput(f) == [isList |-> TRUE, items |-> <<f>>]

RECURSIVE SeqsUpTo(_, _)
SeqsUpTo(S, n) ==
  IF n = 0 THEN { <<>> }
  ELSE LET shorter == SeqsUpTo(S, n - 1)
       IN shorter \cup { Append(q, x) : q \in {r \in shorter : Len(r) = n - 1}, x \in S }

\* a payload is a list of features, or something that is no list
Payloads ==
  { [isList |-> TRUE, items |-> q] : q \in SeqsUpTo(Features, MaxBatch) }
    \cup { [isList |-> FALSE, items |-> <<>>] }

ClasseFilters == { None, Some(<<>>), Some(<<"w">>), Some(<<" ", "W">>), Some(<<"u">>) }
BBoxFilters == { None, Some(Geom(0, 1)), Some(Geom(2, 2)), Some(Geom(5, 6)) }

-----------------------------------------------------------------------------
(* services/samples.py *)

Max(S) == CHOOSE x \in S : \A y \in S : y <= x

\* {int(r["segment_id"]): i for i, r in ...iterrows()}: a later row of the same
\* id replaces the earlier entry
IndexById(rows) ==
  [ sid \in { rows[i].segment_id : i \in DOMAIN rows } |->
      Max({ i \in DOMAIN rows : rows[i].segment_id = sid }) ]

\* _read_samples: the rows of the file, none when the file does not exist
ReadSamples(file) == IF file.exists THEN file.rows ELSE <<>>

\* faulty variant: an id missing from seg_idx falls back to position 1 instead of raising
RowOfDefaultPos(feat, segRows, segIdx) ==
  IF feat.segment_id = None \/ feat.classe = None
  THEN [err |-> "MissingField", row |-> <<>>]
  ELSE [err |-> "none",
        row |-> <<[segment_id |-> feat.segment_id[1],
                   classe |-> NormClasse(feat.classe[1]),
                   usuario |-> NormUsuario(feat.usuario),
                   geometry |-> IF feat.geometry # None THEN feat.geometry[1]
                                ELSE IF feat.segment_id[1] \in DOMAIN segIdx
                                     THEN segRows[segIdx[feat.segment_id[1]]].geometry
                                     ELSE segRows[1].geometry]>>]

\* one turn of the validation loop of upsert_samples_from_features
RowOf(feat, segRows, segIdx) ==
  IF feat.segment_id = None \/ feat.classe = None
  THEN [err |-> "MissingField", row |-> <<>>]
  ELSE LET sid == feat.segment_id[1]
           base == [segment_id |-> sid,
                    classe |-> NormClasse(feat.classe[1]),
                    usuario |-> NormUsuario(feat.usuario)]
       IN IF feat.geometry # None
          THEN [err |-> "none", row |-> <<base @@ [geometry |-> feat.geometry[1]]>>]
          ELSE IF sid \notin DOMAIN segIdx
               THEN [err |-> "UnknownSegment", row |-> <<>>]
               ELSE [err |-> "none",
                     row |-> <<base @@ [geometry |-> segRows[segIdx[sid]].geometry]>>]

\* the error raised by the validation loop: that of the first input rejected
FirstError(rs) ==
  IF \A k \in DOMAIN rs : rs[k].err = "none" THEN "none"
  ELSE rs[CHOOSE k \in DOMAIN rs :
            rs[k].err # "none" /\ \A j \in 1..(k - 1) : rs[j].err = "none"].err

\* rows.append(...) for every input, unless one of them raised
CollectRows(rs, err) ==
  [err |-> err,
   rows |-> IF err = "none" THEN [k \in DOMAIN rs |-> rs[k].row[1]] ELSE <<>>]

RowsOrError(rs) == CollectRows(rs, FirstError(rs))

\* for feat in features: ... (the loop that validates the inputs and builds rows)
BuildRows(feats, segRows, segIdx) ==
  RowsOrError([k \in DOMAIN feats |-> RowOf(feats[k], segRows, segIdx)])

\* faulty variant: the update leaves the stored classe as it was
OverwriteRowKeepClasse(samples, idx, row) ==
  [samples EXCEPT ![idx] = [row EXCEPT !.classe = samples[idx].classe]]

\* for k, v in row.items(): samples.at[idx, k] = v
OverwriteRow(samples, idx, row) == [samples EXCEPT ![idx] = row]

\* faulty variant: existing_idx is left empty
ExistingIdxEmpty(samples) == IndexById(<<>>)

\* existing_idx: the position of each stored segment_id
ExistingIdx(samples) == IndexById(samples)

\* seg_idx: the position of each segment_id of the layer
SegIdx(segRows) == IndexById(segRows)

\* for row in rows: update the sample at existing_idx[sid], or append the row
RECURSIVE MergeRows(_, _, _)
MergeRows(acc, rows, k) ==
  IF k > Len(rows) THEN acc
  ELSE IF rows[k].segment_id \in DOMAIN acc.idx
       THEN MergeRows([acc EXCEPT
                         !.samples = OverwriteRow(acc.samples, acc.idx[rows[k].segment_id], rows[k]),
                         !.updated = @ + 1], rows, k + 1)
       ELSE MergeRows([samples |-> Append(acc.samples, rows[k]),
                       idx |-> (rows[k].segment_id :> (Len(acc.samples) + 1)) @@ acc.idx,
                       created |-> acc.created + 1,
                       updated |-> acc.updated], rows, k + 1)

\* faulty variant: the store file is gone after a failed call
FailedTruncating(e, file) == [err |-> e, created |-> 0, updated |-> 0, file |-> NoFile]

\* an exception raised before _atomic_write_geojson: the store file is as it was
Failed(e, file) == [err |-> e, created |-> 0, updated |-> 0, file |-> file]

Returned(m) == [err |-> "none", created |-> m.created, updated |-> m.updated,
                file |-> File(m.samples)]

\* lines 331-353: the two branches on len(samples), then the write
StoreRows(file, samples, built) ==
  IF built.err # "none" THEN Failed(built.err, file)
  ELSE IF Len(samples) = 0
       THEN \* GeoDataFrame([], geometry="geometry") has no geometry column and raises
            IF built.rows = <<>> THEN Failed("NoGeometryColumn", file)
            ELSE [err |-> "none", created |-> Len(built.rows), updated |-> 0,
                  file |-> File(built.rows)]
       ELSE Returned(MergeRows([samples |-> samples, idx |-> ExistingIdx(samples),
                                created |-> 0, updated |-> 0], built.rows, 1))

\* upsert_samples_from_features: the error raised or the pair returned, and
\* the store file the call leaves
UpsertSamplesFromFeatures(file, layer, payload) ==
  IF ~payload.isList THEN Failed("InvalidPayload", file)
  ELSE IF ~layer.exists THEN Failed("NoSegmentLayer", file)
  ELSE StoreRows(file, ReadSamples(file),
                 BuildRows(payload.items, layer.rows, SegIdx(layer.rows)))

\* gdf[cond]: the rows at the positions where cond holds, in order
RECURSIVE SelectRows(_, _, _)
SelectRows(rows, keep, k) ==
  IF k > Len(rows) THEN <<>>
  ELSE IF k \in keep THEN <<rows[k]>> \o SelectRows(rows, keep, k + 1)
       ELSE SelectRows(rows, keep, k + 1)

\* faulty variant: the filter is compared as given, without strip().lower()
FilterClasseRaw(rows, classe) ==
  IF classe = None \/ classe[1] = <<>> THEN rows
  ELSE SelectRows(rows, { i \in DOMAIN rows : rows[i].classe = classe[1] }, 1)

\* if classe: gdf = gdf[gdf["classe"] == str(classe).strip().lower()]
FilterClasse(rows, classe) ==
  IF classe = None \/ classe[1] = <<>> THEN rows
  ELSE SelectRows(rows, { i \in DOMAIN rows : rows[i].classe = NormClasse(classe[1]) }, 1)

\* if bbox and len(bbox) == 4: gdf = gdf[gdf.intersects(box(...))]
FilterBBox(rows, bbox) ==
  IF bbox = None THEN rows
  ELSE SelectRows(rows, { i \in DOMAIN rows : Intersects(rows[i].geometry, bbox[1]) }, 1)

\* list_samples
ListSamplesOf(file, classe, bbox) ==
  IF Len(ReadSamples(file)) = 0 THEN ReadSamples(file)
  ELSE FilterBBox(FilterClasse(ReadSamples(file), classe), bbox)

\* faulty variant: < in place of !=
RowsBelow(rows, sid) ==
  SelectRows(rows, { i \in DOMAIN rows : rows[i].segment_id < sid }, 1)

\* gdf[gdf["segment_id"] != int(segment_id)]
RowsOtherThan(rows, sid) ==
  SelectRows(rows, { i \in DOMAIN rows : rows[i].segment_id # sid }, 1)

\* lines 402-410 of delete_sample
DeleteRows(file, gdf, kept) ==
  IF Len(kept) < Len(gdf) THEN [removed |-> TRUE, file |-> File(kept)]
  ELSE [removed |-> FALSE, file |-> file]

\* delete_sample: the value returned and the store file the call leaves
DeleteSampleOf(file, sid) ==
  IF Len(ReadSamples(file)) = 0 THEN [removed |-> FALSE, file |-> file]
  ELSE DeleteRows(file, ReadSamples(file), RowsOtherThan(ReadSamples(file), sid))

-----------------------------------------------------------------------------
(* The Sample Store as a state machine: one call at a time.  last keeps   *)
(* what the last call returned: the error raised (err), the pair          *)
(* (created, updated) of an upsert, the boolean of a delete, the rows of  *)
(* a list.                                                                 *)

NoCall == [op |-> "none", err |-> "none", created |-> 0, updated |-> 0,
           removed |-> FALSE, out |-> <<>>]

StoreInit ==
  /\ segLayer \in { NoFile, File(LayerRows) }
  /\ store = NoFile
  /\ last = NoCall

\* no concurrent process runs
NoJob == [op |-> "none", payload |-> [isList |-> TRUE, items |-> <<>>], sid |-> 0]
IdleProc(job) == [pc |-> "idle", job |-> job, saw |-> None, data |-> None, fd |-> "none", off |-> 0]
NoObs == [seen |-> FALSE, exists |-> FALSE, content |-> <<>>]
ConcIdle ==
  /\ dir = [samples |-> "none", tmp |-> "none"]
  /\ inodes = [i \in {"i0", "w1", "w2"} |-> <<>>]
  /\ proc = [w \in {"w1", "w2"} |-> IdleProc(NoJob)]
  /\ obs = NoObs

\* no stack and no feature table yet
NoStack == [exists |-> FALSE, x0 |-> 0, px |-> <<>>, count |-> 0, bands |-> <<>>]
NoFeatCall == [op |-> "none", err |-> "none", reads |-> <<>>]
FeatIdle ==
  /\ stack = NoStack
  /\ featTable = NoFile
  /\ featLast = NoFeatCall

\* no band raster, no label file, no propagation result yet
NoAsm == [err |-> "none", written |-> FALSE, grid |-> <<>>, channels |-> <<>>, used |-> <<>>]
NoPropCall ==
  [op |-> "none", err |-> "none", fitted |-> FALSE, rotulos |-> <<>>, out |-> <<>>,
   acc |-> <<>>, n_total |-> 0, n_labeled |-> 0, labels |-> {}, name |-> <<>>, runs |-> 0]
NoRgb == [called |-> FALSE, written |-> FALSE, used |-> <<>>]
NoImg == [px |-> <<>>, done |-> FALSE, scaled |-> <<>>, u8 |-> <<>>]
AsmIdle ==
  /\ bandFiles = [b \in {"B02", "B04", "B08"} |-> None]
  /\ asm = NoAsm
  /\ rgb = NoRgb
  /\ img = NoImg
PropIdle ==
  /\ labsFile = NoFile
  /\ propFiles = <<>>
  /\ clock = 0
  /\ propLast = NoPropCall
PipeIdle == AsmIdle /\ PropIdle

Init == StoreInit /\ ConcIdle /\ FeatIdle /\ PipeIdle

UpsertReturns(r) ==
  /\ store' = r.file
  /\ last' = [NoCall EXCEPT !.op = "upsert", !.err = r.err,
                            !.created = r.created, !.updated = r.updated]
  /\ UNCHANGED <<segLayer, concVars, featVars, pipeVars>>

Upsert(payload) == UpsertReturns(UpsertSamplesFromFeatures(store, segLayer, payload))

ListSamples(classe, bbox) ==
  /\ last' = [NoCall EXCEPT !.op = "list", !.out = ListSamplesOf(store, classe, bbox)]
  /\ UNCHANGED <<store, segLayer, concVars, featVars, pipeVars>>

DeleteReturns(r) ==
  /\ store' = r.file
  /\ last' = [NoCall EXCEPT !.op = "delete", !.removed = r.removed]
  /\ UNCHANGED <<segLayer, concVars, featVars, pipeVars>>

DeleteSample(sid) == DeleteReturns(DeleteSampleOf(store, sid))

DoUpsert == \E payload \in Payloads : Upsert(payload)
DoList == \E classe \in ClasseFilters, bbox \in BBoxFilters : ListSamples(classe, bbox)
DoDelete == \E sid \in InputIds : DeleteSample(sid)

Next == DoUpsert \/ DoList \/ DoDelete

Spec == Init /\ [][Next]_vars

-----------------------------------------------------------------------------
(* Properties of the Sample Store *)

\* the class a raw class string stands for: trimmed and lower-cased
Canon(raw) ==
  CASE raw = <<"w">> -> <<"w">>
    [] raw = <<" ", "W">> -> <<"w">>
    [] raw = <<"u">> -> <<"u">>
    [] raw = <<"U", " ">> -> <<"u">>
    [] raw = <<>> -> <<>>

IdsOf(rows) == { rows[i].segment_id : i \in DOMAIN rows }
RowsWithId(rows, s) == { i \in DOMAIN rows : rows[i].segment_id = s }
Count(rows, row) == Cardinality({ i \in DOMAIN rows : rows[i] = row })
Pairs(file) == { <<file.rows[i].segment_id, file.rows[i].classe>> : i \in DOMAIN file.rows }

\* C1: the store holds at most one Sample per segment_id, in every state
\* reachable by upsert and delete calls.
C1_OneSamplePerSegment ==
  \A i, j \in DOMAIN store.rows :
    store.rows[i].segment_id = store.rows[j].segment_id => i = j

SecondUpsertSame(p, r1, r2) ==
  /\ r2.err = "none"
  /\ r2.created = 0
  /\ r2.updated = Len(p.items)
  /\ Pairs(r2.file) = Pairs(r1.file)

UpsertTwice(p, r1) ==
  r1.err = "none" =>
    SecondUpsertSame(p, r1, UpsertSamplesFromFeatures(r1.file, segLayer, p))

\* C2: from every reachable store and for every payload the upsert accepts,
\* the same payload applied again returns created = 0 and updated = N and
\* leaves the set of (segment_id, classe) pairs of the store as it was.
C2_UpsertIdempotent ==
  \A p \in Payloads : UpsertTwice(p, UpsertSamplesFromFeatures(store, segLayer, p))

\* an upsert of two inputs returned (0, 2) and left a store that one more
\* application of such a payload does not change
C2_Witness ==
  /\ last.op = "upsert" /\ last.err = "none"
  /\ last.created = 0 /\ last.updated = 2
  /\ \E p \in Payloads :
       /\ Len(p.items) = 2
       /\ UpsertSamplesFromFeatures(store, segLayer, p).file = store

ListedOnce(s, c, out) ==
  /\ Cardinality(RowsWithId(out, s)) = 1
  /\ \A i \in RowsWithId(out, s) : out[i].classe = Canon(c)

SecondIsUpdate(s, c2, r2) ==
  /\ r2.err = "none" /\ r2.created = 0 /\ r2.updated = 1
  /\ ListedOnce(s, c2, ListSamplesOf(r2.file, None, None))

FirstIsCreate(s, c2, r1) ==
  /\ r1.err = "none" /\ r1.created = 1 /\ r1.updated = 0
  /\ SecondIsUpdate(s, c2, UpsertSamplesFromFeatures(r1.file, segLayer, OneInput(Bare(s, c2))))

\* C3: for a segment id s of the layer that the store does not hold and any
\* classes c1, c2: upsert {s, c1} returns (1, 0), a following upsert {s, c2}
\* returns (0, 1), and list_samples then returns exactly one record for s,
\* of class c2 trimmed and lower-cased.
C3_CreateThenUpdate ==
  \A s \in IdsOf(segLayer.rows) \ IdsOf(ReadSamples(store)) :
    \A c1, c2 \in RawClasses :
      FirstIsCreate(s, c2, UpsertSamplesFromFeatures(store, segLayer, OneInput(Bare(s, c1))))

\* an upsert has just updated the single sample of a segment
C3_Witness ==
  /\ last.op = "upsert" /\ last.err = "none"
  /\ last.created = 0 /\ last.updated = 1
  /\ \E s \in IdsOf(segLayer.rows) : Cardinality(RowsWithId(store.rows, s)) = 1

IsBare(f) == f.segment_id # None /\ f.classe # None /\ f.geometry = None
LastOfItsId(items, k) ==
  \A j \in DOMAIN items : j > k => items[j].segment_id # items[k].segment_id
NoneMissingBefore(items, k) ==
  \A j \in 1..(k - 1) : items[j].segment_id # None /\ items[j].classe # None
HasRow(file, s, g) ==
  \E i \in DOMAIN file.rows : file.rows[i].segment_id = s /\ file.rows[i].geometry = g

GeometryResolved(p, r) ==
  \A k \in DOMAIN p.items :
    IsBare(p.items[k]) =>
      IF p.items[k].segment_id[1] \in IdsOf(segLayer.rows)
      THEN (r.err = "none" /\ LastOfItsId(p.items, k))
             => HasRow(r.file, p.items[k].segment_id[1], SegGeom(p.items[k].segment_id[1]))
      ELSE /\ r.err # "none"
           /\ r.file = store
           /\ NoneMissingBefore(p.items, k) => r.err = "UnknownSegment"

\* C6: an upsert input without geometry whose segment_id is in the layer is
\* stored with that segment's geometry (when the call succeeds and no later
\* input of the payload names the same id); a payload with an input without
\* geometry whose segment_id is not in the layer fails and stores nothing, and
\* the error is UnknownSegment unless an earlier input lacks segment_id or
\* classe and is rejected first.
C6_GeometryFromSegment ==
  segLayer.exists =>
    \A p \in Payloads :
      p.isList => GeometryResolved(p, UpsertSamplesFromFeatures(store, segLayer, p))

\* an upsert was refused for an unknown segment, and the store holds a sample
\* that carries the geometry of its segment
C6_Witness ==
  /\ last.op = "upsert" /\ last.err = "UnknownSegment"
  /\ \E s \in IdsOf(segLayer.rows) : HasRow(store, s, SegGeom(s))

DeleteAsClaimed(sid, r) ==
  /\ r.removed = (sid \in IdsOf(ReadSamples(store)))
  /\ sid \notin IdsOf(r.file.rows)
  /\ \A i \in DOMAIN store.rows :
       store.rows[i].segment_id # sid
         => Count(r.file.rows, store.rows[i]) = Count(store.rows, store.rows[i])
  /\ \A i \in DOMAIN r.file.rows :
       Count(r.file.rows, r.file.rows[i]) = Count(store.rows, r.file.rows[i])
  /\ ~r.removed => r.file = store
  /\ ~DeleteSampleOf(r.file, sid).removed

\* C7: delete(sid) returns TRUE exactly when the store held a sample of sid;
\* afterwards the store holds none, every other sample is as it was, a call
\* that returns FALSE leaves the store unchanged, and a second delete of the
\* same id returns FALSE.
C7_DeleteFrame ==
  \A sid \in InputIds : DeleteAsClaimed(sid, DeleteSampleOf(store, sid))

\* a delete has removed a sample and other samples remain
C7_Witness == last.op = "delete" /\ last.removed /\ store.rows # <<>>

ExactMatches(c, b) ==
  { i \in DOMAIN store.rows :
      /\ c = None \/ store.rows[i].classe = c[1]
      /\ b = None \/ Intersects(store.rows[i].geometry, b[1]) }

NormalisedMatches(c, b) ==
  { i \in DOMAIN store.rows :
      /\ c = None \/ c[1] = <<>> \/ store.rows[i].classe = Canon(c[1])
      /\ b = None \/ Intersects(store.rows[i].geometry, b[1]) }

ListsExactly ==
  \A c \in ClasseFilters, b \in BBoxFilters :
    ListSamplesOf(store, c, b) = SelectRows(store.rows, ExactMatches(c, b), 1)

ListsNormalised ==
  \A c \in ClasseFilters, b \in BBoxFilters :
    ListSamplesOf(store, c, b) = SelectRows(store.rows, NormalisedMatches(c, b), 1)

-----------------------------------------------------------------------------
(* The store file under concurrent calls.  A writer is one call of          *)
(* upsert_samples_from_features or delete_sample; its steps are the file    *)
(* system calls it makes: the read of _read_samples, then in                *)
(* _atomic_write_geojson the removal of an existing temporary file and the  *)
(* creation of the file by to_file, the writes of its content, and          *)
(* os.replace.  A file is a sequence of chunks: one per row, then the chunk *)
(* that closes the FeatureCollection.  Each open file has an offset of its  *)
(* own; two writers that have the same inode open write over each other.    *)

Writers == {"w1", "w2"}
Other(w) == IF w = "w1" THEN "w2" ELSE "w1"

RowChunk(row) == [k |-> "row", v |-> <<row>>]
EndChunk == [k |-> "end", v |-> <<>>]
HoleChunk == [k |-> "hole", v |-> <<>>]

\* gdf.to_file(tmp, driver="GeoJSON"): what the complete file holds
Encode(rows) ==
  [i \in 1..(Len(rows) + 1) |-> IF i <= Len(rows) THEN RowChunk(rows[i]) ELSE EndChunk]

\* a file that gpd.read_file can parse
Complete(content) ==
  /\ content # <<>>
  /\ content[Len(content)].k = "end"
  /\ \A i \in 1..(Len(content) - 1) : content[i].k = "row"

\* gpd.read_file of a complete file
Decode(content) == [i \in 1..(Len(content) - 1) |-> content[i].v[1]]

\* write(2) of one chunk at a file offset
WriteAt(content, off, chunk) ==
  [i \in 1..Max({Len(content), off}) |->
     IF i = off THEN chunk ELSE IF i <= Len(content) THEN content[i] ELSE HoleChunk]

\* faulty variant: the content is written straight to the store path
TmpPathSame(path) == path

\* tmp = path + ".geojson.tmp"
TmpPath(path) == "tmp"

\* what a process finds at the store path
Snapshot ==
  IF dir.samples = "none" THEN [exists |-> FALSE, content |-> <<>>]
  ELSE [exists |-> TRUE, content |-> inodes[dir.samples]]

\* _read_samples: the store file as the call sees it
FileSeen(snap) == IF snap.exists THEN File(Decode(snap.content)) ELSE NoFile

UpsertJob(payload) == [op |-> "upsert", payload |-> payload, sid |-> 0]
DeleteJob(sid) == [op |-> "delete", payload |-> [isList |-> TRUE, items |-> <<>>], sid |-> sid]

JobsOf(w) ==
  IF w = "w1"
  THEN { UpsertJob(OneInput(Bare(2, <<"w">>))),
         UpsertJob([isList |-> TRUE, items |-> <<Bare(1, <<"U", " ">>), Bare(2, <<"w">>)>>]) }
  ELSE { UpsertJob(OneInput(Bare(1, <<"w">>))), DeleteJob(1) }

InitialStores ==
  { NoFile,
    File(<<[segment_id |-> 1, classe |-> <<"u">>, usuario |-> None, geometry |-> SegGeom(1)]>>) }

InitialSnapshots ==
  { IF f.exists THEN [exists |-> TRUE, content |-> Encode(f.rows)]
    ELSE [exists |-> FALSE, content |-> <<>>] : f \in InitialStores }

ConcInit ==
  /\ segLayer = File(LayerRows)
  /\ store = NoFile
  /\ last = NoCall
  /\ FeatIdle
  /\ PipeIdle
  /\ \E f \in InitialStores :
       /\ dir = [samples |-> IF f.exists THEN "i0" ELSE "none", tmp |-> "none"]
       /\ inodes = [i \in {"i0", "w1", "w2"} |->
                      IF i = "i0" /\ f.exists THEN Encode(f.rows) ELSE <<>>]
  /\ proc \in [Writers -> UNION { {IdleProc(j) : j \in JobsOf(w)} : w \in Writers }]
  /\ \A w \in Writers : proc[w].job \in JobsOf(w)
  /\ obs = NoObs

\* the call after its read: what it will write, or how it ends without writing
AfterUpsert(p, snap, r) ==
  IF r.err # "none" THEN [p EXCEPT !.pc = "failed", !.saw = Some(snap)]
  ELSE [p EXCEPT !.pc = "to_file", !.saw = Some(snap), !.data = Some(r.file.rows)]

AfterDelete(p, snap, r) ==
  IF r.removed THEN [p EXCEPT !.pc = "to_file", !.saw = Some(snap), !.data = Some(r.file.rows)]
  ELSE [p EXCEPT !.pc = "done", !.saw = Some(snap)]

AfterRead(p, snap) ==
  IF snap.exists /\ ~Complete(snap.content)
  THEN [p EXCEPT !.pc = "failed", !.saw = Some(snap)]
  ELSE IF p.job.op = "upsert"
       THEN AfterUpsert(p, snap, UpsertSamplesFromFeatures(FileSeen(snap), segLayer, p.job.payload))
       ELSE AfterDelete(p, snap, DeleteSampleOf(FileSeen(snap), p.job.sid))

\* the call reads the store and computes the rows to write
WriterReads(w) ==
  /\ proc[w].pc = "idle"
  /\ proc' = [proc EXCEPT ![w] = AfterRead(proc[w], Snapshot)]
  /\ UNCHANGED <<dir, inodes, obs, storeVars, featVars, pipeVars>>

\* to_file removes a file that exists at the path it is about to create
WriterUnlinksTmp(w) ==
  /\ proc[w].pc = "to_file"
  /\ dir' = [dir EXCEPT ![TmpPath("samples")] = "none"]
  /\ proc' = [proc EXCEPT ![w].pc = "create"]
  /\ UNCHANGED <<inodes, obs, storeVars, featVars, pipeVars>>

\* to_file opens the path for writing: a new file, or the file another
\* writer has created there meanwhile, cut to length zero
WriterCreatesTmp(w) ==
  /\ proc[w].pc = "create"
  /\ LET ino == IF dir[TmpPath("samples")] = "none" THEN w ELSE dir[TmpPath("samples")]
     IN /\ dir' = [dir EXCEPT ![TmpPath("samples")] = ino]
        /\ inodes' = [inodes EXCEPT ![ino] = <<>>]
        /\ proc' = [proc EXCEPT ![w].pc = "write", ![w].fd = ino, ![w].off = 1]
  /\ UNCHANGED <<obs, storeVars, featVars, pipeVars>>

\* to_file writes the next chunk at its offset, and closes the file after the last
WriterWrites(w) ==
  /\ proc[w].pc = "write"
  /\ inodes' = [inodes EXCEPT ![proc[w].fd] =
                  WriteAt(@, proc[w].off, Encode(proc[w].data[1])[proc[w].off])]
  /\ proc' = [proc EXCEPT
                ![w].off = @ + 1,
                ![w].pc = IF proc[w].off = Len(proc[w].data[1]) + 1 THEN "replace" ELSE "write"]
  /\ UNCHANGED <<dir, obs, storeVars, featVars, pipeVars>>

\* os.replace(tmp, path): FileNotFoundError when tmp is gone
WriterReplaces(w) ==
  /\ proc[w].pc = "replace"
  /\ IF dir[TmpPath("samples")] = "none"
     THEN /\ proc' = [proc EXCEPT ![w].pc = "failed"]
          /\ UNCHANGED dir
     ELSE /\ dir' = IF TmpPath("samples") = "samples" THEN dir
                    ELSE [samples |-> dir[TmpPath("samples")], tmp |-> "none"]
          /\ proc' = [proc EXCEPT ![w].pc = "done"]
  /\ UNCHANGED <<inodes, obs, storeVars, featVars, pipeVars>>

\* list_samples run beside the writers: its read of the store path
ReaderReads ==
  /\ obs' = [seen |-> TRUE, exists |-> Snapshot.exists, content |-> Snapshot.content]
  /\ UNCHANGED <<dir, inodes, proc, storeVars, featVars, pipeVars>>

ConcNext ==
  \/ \E w \in Writers : WriterReads(w)
  \/ \E w \in Writers : WriterUnlinksTmp(w)
  \/ \E w \in Writers : WriterCreatesTmp(w)
  \/ \E w \in Writers : WriterWrites(w)
  \/ \E w \in Writers : WriterReplaces(w)
  \/ ReaderReads

SpecConc == ConcInit /\ [][ConcNext]_vars

\* the writer has not yet touched any file
Untouched(w) ==
  \/ proc[w].pc \in {"idle", "to_file"}
  \/ proc[w].pc \in {"done", "failed"} /\ proc[w].data = None

\* the store as it was before the write of writer w, or as w leaves it
BeforeOrAfter(snap, w) ==
  \/ snap \in InitialSnapshots
  \/ /\ proc[w].data # None
     /\ snap = [exists |-> TRUE, content |-> Encode(proc[w].data[1])]

\* C4: while only one writer writes (the other call has at most done its
\* read), every read of the store path - by list_samples or by the read at
\* the start of the other call - found either the complete store from before
\* the write or the complete store the writer leaves, never a part of it.
C4_ReaderSeesWholeStore ==
  \A w \in Writers :
    Untouched(w) =>
      /\ obs.seen => BeforeOrAfter([exists |-> obs.exists, content |-> obs.content], Other(w))
      /\ proc[w].saw # None => BeforeOrAfter(proc[w].saw[1], Other(w))

\* list_samples read the store that the single writer w1 had just installed,
\* which differs from the store before the write, while w2 had not started
C4_Witness ==
  /\ proc["w2"].pc = "idle"
  /\ proc["w1"].pc = "done" /\ proc["w1"].data # None
  /\ obs.seen /\ obs.exists
  /\ obs.content = Encode(proc["w1"].data[1])
  /\ [exists |-> obs.exists, content |-> obs.content] \notin InitialSnapshots

\* C5: after two concurrent writers have both finished, the store file is
\* the complete output of one of them.
C5_LastWriterWins ==
  (\A w \in Writers : proc[w].pc \in {"done", "failed"} /\ proc[w].data # None) =>
    /\ dir.samples # "none"
    /\ \E w \in Writers : inodes[dir.samples] = Encode(proc[w].data[1])

-----------------------------------------------------------------------------
(* services/segmentation.py and services/features.py: the stack, the        *)
(* segment layer vectorised from it and the feature table.  The grid of a   *)
(* stack is a row of pixels that starts x0 pixels from the origin of the    *)
(* line; a pixel holds one kind of spectrum.                                *)

NPix == 2          \* widest grid
MaxOrigin == 1     \* a stack starts 0..MaxOrigin pixels from the origin
NBands == 12       \* len(BANDAS_TODAS)
BandasTodas ==
  <<"B01", "B02", "B03", "B04", "B05", "B06", "B07", "B08", "B8A", "B09", "B11", "B12">>
LabelModulus == 65536   \* np.uint16

Min(S) == CHOOSE x \in S : \A y \in S : x <= y

RECURSIVE SortedSeq(_)
SortedSeq(S) == IF S = {} THEN <<>> ELSE <<Min(S)>> \o SortedSeq(S \ {Min(S)})

\* "veg": every band finite and every index finite; "nodata": every band NaN;
\* "evi0": every band finite and NIR + 6*R - 7.5*B + 1.0 = 0, so EVI is not finite
PixelKinds == {"veg", "nodata", "evi0"}
BandCounts == {NBands, NBands - 1}

Grids == UNION { [1..n -> PixelKinds] : n \in 1..NPix }

\* the pixel p of a grid that starts at x0, and its centre
PixelGeom(x0, p) == Geom(2 * (x0 + p - 1), 2 * (x0 + p))
Centre(x0, p) == 2 * (x0 + p) - 1
Covers(g, x) == g.lo < x /\ x < g.hi

\* label grids of slic(start_label=1, enforce_connectivity=True): runs of
\* pixels, labelled 1, 2, ... from the left
SlicLabels(n) ==
  { l \in [1..n -> 1..n] :
      /\ l[1] = 1
      /\ \A p \in 2..n : l[p] \in {l[p - 1], l[p - 1] + 1} }

\* segments.astype(np.uint16)
AsUint16(labels) == [p \in DOMAIN labels |-> labels[p] % LabelModulus]

\* shapes(values, mask): one polygon per maximal run of masked pixels of one value
RunStarts(values, mask) ==
  { p \in DOMAIN values : mask[p] /\ (p = 1 \/ ~mask[p - 1] \/ values[p - 1] # values[p]) }
RunEnd(values, mask, s) ==
  Max({ q \in s..Len(values) : \A r \in s..q : mask[r] /\ values[r] = values[s] })
Polygon(values, mask, x0, s) ==
  [segment_id |-> values[s],
   geometry |-> Geom(PixelGeom(x0, s).lo, PixelGeom(x0, RunEnd(values, mask, s)).hi)]
PolygonsAt(values, mask, x0, starts) ==
  [i \in DOMAIN starts |-> Polygon(values, mask, x0, starts[i])]
Shapes(values, mask, x0) ==
  PolygonsAt(values, mask, x0, SortedSeq(RunStarts(values, mask)))

\* aplicar_segmentacao_multibanda: the layer written for a label grid
Vectorise(labels, x0) ==
  Shapes(AsUint16(labels), [p \in DOMAIN labels |-> labels[p] > 0], x0)

\* rasterize(shapes, fill=0, all_touched=False): a pixel takes the id of the
\* last shape that covers its centre
LabelAt(rows, x0, p) ==
  IF \E i \in DOMAIN rows : Covers(rows[i].geometry, Centre(x0, p))
  THEN rows[Max({ i \in DOMAIN rows : Covers(rows[i].geometry, Centre(x0, p)) })].segment_id
  ELSE 0
RasterizeSegments(rows, st) == [p \in DOMAIN st.px |-> LabelAt(rows, st.x0, p)]

\* the finite samples a label has in a band, in a normalised-difference
\* index and in EVI
BandFinite(kind) == kind # "nodata"
IndexFinite(kind) == kind # "nodata"
EviFinite(kind) == kind = "veg"

\* _stats_for_label: NaN for every statistic when the label has no pixel or
\* no finite sample, the statistics of its n finite samples otherwise
NaNStats == [nan |-> TRUE, n |-> 0]
StatsOfCount(n) == IF n = 0 THEN NaNStats ELSE [nan |-> FALSE, n |-> n]
StatsForLabel(finite, labels, label) ==
  StatsOfCount(Cardinality({ p \in DOMAIN labels : labels[p] = label /\ finite[p] }))

FeatureRecord(st, labels, label) ==
  [segment_id |-> label,
   bands |-> StatsForLabel([p \in DOMAIN st.px |-> BandFinite(st.px[p])], labels, label),
   nd    |-> StatsForLabel([p \in DOMAIN st.px |-> IndexFinite(st.px[p])], labels, label),
   evi   |-> StatsForLabel([p \in DOMAIN st.px |-> EviFinite(st.px[p])], labels, label)]

FeatureRows(st, labels, unique) ==
  [i \in DOMAIN unique |-> FeatureRecord(st, labels, unique[i])]

\* unique_labels: the labels > 0 found in the raster, sorted
UniqueLabels(labels) == SortedSeq({ labels[p] : p \in DOMAIN labels } \ {0})

\* band_to_idx = {b: i for i, b in enumerate(BANDAS_TODAS)}: the channel, counted
\* from 1, at which band b is read
BandToIdx(b) == CHOOSE i \in DOMAIN BandasTodas : BandasTodas[i] = b

\* the bands _compute_indices reads (R, G, B, NIR, SWIR1, SWIR2), then the
\* bands of the loop "for b in BANDAS_TODAS", in the order of the reads
IndexBands == <<"B04", "B03", "B02", "B08", "B11", "B12">>
ReadOrder == IndexBands \o BandasTodas

\* arr[band_to_idx[b]] raises IndexError past the last channel of the stack
OutOfRange(bands) == { k \in DOMAIN ReadOrder : BandToIdx(ReadOrder[k]) > Len(bands) }
ReadsDone(bands) ==
  IF OutOfRange(bands) = {} THEN Len(ReadOrder) ELSE Min(OutOfRange(bands)) - 1

\* the reads made before the first failing one: the band the statistics are
\* named after, and the band that the channel read holds
ReadsOf(bands) ==
  [k \in 1..ReadsDone(bands) |->
     [name |-> ReadOrder[k], holds |-> bands[BandToIdx(ReadOrder[k])]]]

FeaturesOfLabels(st, table, labels, unique) ==
  IF unique = <<>> THEN [err |-> "NoLabels", table |-> table, reads |-> <<>>]
  ELSE IF st.count < NBands
  THEN [err |-> "IndexError", table |-> table, reads |-> ReadsOf(st.bands)]
  ELSE [err |-> "none", table |-> File(FeatureRows(st, labels, unique)),
        reads |-> ReadsOf(st.bands)]

FeaturesOfRaster(st, table, labels) ==
  FeaturesOfLabels(st, table, labels, UniqueLabels(labels))

\* build_features: the error raised, and the feature table the call leaves
BuildFeaturesOf(layer, st, table) ==
  IF ~layer.exists THEN [err |-> "NoSegmentLayer", table |-> table, reads |-> <<>>]
  ELSE IF ~st.exists THEN [err |-> "NoStack", table |-> table, reads |-> <<>>]
  ELSE FeaturesOfRaster(st, table, RasterizeSegments(layer.rows, st))

\* criar_multibanda writes the stack of the bands found on the reference grid
CriarMultibanda(x0, px, count) ==
  /\ stack' = [exists |-> TRUE, x0 |-> x0, px |-> px, count |-> count,
               bands |-> SubSeq(BandasTodas, 1, count)]
  /\ featLast' = [op |-> "stack", err |-> "none", reads |-> <<>>]
  /\ UNCHANGED <<featTable, storeVars, concVars, pipeVars>>

\* gdf[is_valid & notna] and gdf[~is_empty]: keep holds the positions of the
\* polygons that pass
Validated(rows, keep) == SelectRows(rows, keep \cap DOMAIN rows, 1)

\* gdf.to_file: the writer either refuses a frame of no rows or writes a layer
\* of no rows, depending on the driver
WriteLayer(rows, layer, writesEmpty) ==
  IF rows = <<>> /\ ~writesEmpty THEN [err |-> "ValueError", layer |-> layer]
  ELSE [err |-> "none", layer |-> File(rows)]

\* aplicar_segmentacao_multibanda: rasterio.open fails without a stack
AplicarSegmentacaoOf(st, layer, labels, keep, writesEmpty) ==
  IF ~st.exists THEN [err |-> "NoStack", layer |-> layer]
  ELSE WriteLayer(Validated(Vectorise(labels, st.x0), keep), layer, writesEmpty)

SegmentReturns(r) ==
  /\ segLayer' = r.layer
  /\ featLast' = [op |-> "segment", err |-> r.err, reads |-> <<>>]
  /\ UNCHANGED <<stack, featTable, store, last, concVars, pipeVars>>

AplicarSegmentacao(labels, keep, writesEmpty) ==
  SegmentReturns(AplicarSegmentacaoOf(stack, segLayer, labels, keep, writesEmpty))

\* which of up to n polygons the validity filter keeps
Keeps(n) == SUBSET (1..n)

BuildReturns(r) ==
  /\ featTable' = r.table
  /\ featLast' = [op |-> "build", err |-> r.err, reads |-> r.reads]
  /\ UNCHANGED <<stack, storeVars, concVars, pipeVars>>

BuildFeatures == BuildReturns(BuildFeaturesOf(segLayer, stack, featTable))

FeatInit ==
  /\ segLayer = NoFile
  /\ store = NoFile
  /\ last = NoCall
  /\ ConcIdle
  /\ FeatIdle
  /\ PipeIdle

DoStack == \E x0 \in 0..MaxOrigin, px \in Grids, count \in BandCounts : CriarMultibanda(x0, px, count)
DoSegment ==
  \E labels \in SlicLabels(IF stack.exists THEN Len(stack.px) ELSE 1),
     keep \in Keeps(NPix), writesEmpty \in BOOLEAN :
    AplicarSegmentacao(labels, keep, writesEmpty)

FeatNext == DoStack \/ DoSegment \/ BuildFeatures

SpecFeat == FeatInit /\ [][FeatNext]_vars

BuildSucceeded == featLast.op = "build" /\ featLast.err = "none"

\* C9: after build_features has run, the segment_id values of the feature
\* table are exactly the segment_id values of the segment layer it ran on.
C9_FeatureIdsAreSegmentIds ==
  BuildSucceeded => IdsOf(featTable.rows) = IdsOf(segLayer.rows)

\* the segment owns no valid pixel: no pixel of the raster carries its id, or
\* every pixel that does is not finite
ZeroValidPixels(sid) ==
  \A p \in DOMAIN stack.px :
    LabelAt(segLayer.rows, stack.x0, p) = sid => stack.px[p] = "nodata"

IsNaNRecord(rec) == rec.bands.nan /\ rec.nd.nan /\ rec.evi.nan

\* C10: after build_features has run, every segment of the layer that owns
\* zero valid pixels has a feature record whose statistics are all NaN.
C10_NaNRecordForEmptySegment ==
  BuildSucceeded =>
    \A i \in DOMAIN segLayer.rows :
      ZeroValidPixels(segLayer.rows[i].segment_id) =>
        \E j \in DOMAIN featTable.rows :
          /\ featTable.rows[j].segment_id = segLayer.rows[i].segment_id
          /\ IsNaNRecord(featTable.rows[j])

-----------------------------------------------------------------------------
(* aplicar_segmentacao_multibanda on label grids with many labels.  The row *)
(* of pixels is a cut through the image: slic numbers its labels 1..K and   *)
(* the cut meets some of them, each in one run, in increasing order.        *)

LabelValues == {1, 2, 3, LabelModulus - 1, LabelModulus, LabelModulus + 1}

LabelRows(n) ==
  { l \in [1..n -> LabelValues] : \A p \in 2..n : l[p - 1] <= l[p] }

SegInit ==
  /\ \E x0 \in 0..MaxOrigin, n \in 1..(NPix + 1) :
       stack = [exists |-> TRUE, x0 |-> x0, px |-> [p \in 1..n |-> "veg"], count |-> NBands,
                bands |-> BandasTodas]
  /\ segLayer = NoFile
  /\ store = NoFile
  /\ last = NoCall
  /\ ConcIdle
  /\ featTable = NoFile
  /\ featLast = NoFeatCall
  /\ PipeIdle

SegNext ==
  \E labels \in LabelRows(Len(stack.px)), keep \in Keeps(NPix + 1), writesEmpty \in BOOLEAN :
    AplicarSegmentacao(labels, keep, writesEmpty)

SpecSeg == SegInit /\ [][SegNext]_vars

\* C11: every polygon that a segmentation run writes has a positive
\* segment_id that no other polygon of the run carries.
C11_PositiveUniqueIds ==
  (featLast.op = "segment" /\ featLast.err = "none") =>
    /\ \A i \in DOMAIN segLayer.rows : segLayer.rows[i].segment_id > 0
    /\ \A i, j \in DOMAIN segLayer.rows :
         segLayer.rows[i].segment_id = segLayer.rows[j].segment_id => i = j

-----------------------------------------------------------------------------
(* criar_multibanda: the band rasters are aligned on the grid of the first  *)
(* requested band that exists and stacked.  A raster grid is its CRS, the   *)
(* origin of its transform and its width.                                   *)

MaxBands == 3      \* longest list of requested bands

Bands == {"B02", "B04", "B08"}
Crss == {"utm", "wgs"}
BandGrids == [crs : Crss, x0 : 0..MaxOrigin, n : 1..NPix]
BandRequests == SeqsUpTo(Bands, MaxBands)

\* the positions of the request whose raster exists
ExistingAt(bandas, files) == { i \in DOMAIN bandas : files[bandas[i]] # None }

\* faulty variant: the loop stops after the first band found
UsedFirstOnly(bandas, files) ==
  IF ExistingAt(bandas, files) = {} THEN <<>> ELSE <<bandas[Min(ExistingAt(bandas, files))]>>

\* used: the requested bands that are not skipped by "continue", in request order
UsedBands(bandas, files) == SelectRows(bandas, ExistingAt(bandas, files), 1)

\* faulty variant: only the shape is compared
NeedsWarpShapeOnly(src, ref) == src.n # ref.n

\* faulty variant: every band goes through the VRT
NeedsWarpAlways(src, ref) == TRUE

\* needs_warp
NeedsWarp(src, ref) == src.crs # ref.crs \/ src.x0 # ref.x0 \/ src.n # ref.n

\* WarpedVRT(src, crs=, transform=, width=, height=).read(1)
WarpedVRT(src, crs, transform, width) == [crs |-> crs, x0 |-> transform, n |-> width]

\* the first read of the band: through the VRT, or unchanged
ReadBand(src, ref) ==
  IF NeedsWarp(src, ref) THEN WarpedVRT(src, ref.crs, ref.x0, ref.n) ELSE src

\* reproject(..., dst_transform=ref_transform, dst_crs=ref_crs) into an array of the reference shape
Reproject(src, ref) == [crs |-> ref.crs, x0 |-> ref.x0, n |-> ref.n]

\* the fallback when the shape still differs
FallbackIfShapeDiffers(band, src, ref) == IF band.n # ref.n THEN Reproject(src, ref) ELSE band

AlignBand(src, ref) == FallbackIfShapeDiffers(ReadBand(src, ref), src, ref)

\* the branch that produced the band: "native" is src.read(1), the pixels of
\* the raster as they are; "vrt" and "fallback" are resampled pixels
AlignPath(src, ref) ==
  IF ReadBand(src, ref).n # ref.n THEN "fallback"
  ELSE IF NeedsWarp(src, ref) THEN "vrt" ELSE "native"

AlignedChannels(used, files, ref) ==
  [i \in DOMAIN used |-> [band |-> used[i], grid |-> AlignBand(files[used[i]][1], ref),
                          path |-> AlignPath(files[used[i]][1], ref)]]

\* np.stack and the write with the reference profile
StackOf(channels, ref, used) ==
  IF \E i, j \in DOMAIN channels : channels[i].grid.n # channels[j].grid.n
  THEN [NoAsm EXCEPT !.err = "ShapesDiverge"]
  ELSE [err |-> "none", written |-> TRUE, grid |-> Some(ref), channels |-> channels, used |-> used]

AssembleOn(used, files, ref) == StackOf(AlignedChannels(used, files, ref), ref, used)

\* criar_multibanda: the error raised, or the stack written and the bands used
CriarMultibandaOf(bandas, files) ==
  IF ExistingAt(bandas, files) = {}
  THEN [NoAsm EXCEPT !.err = "IncompleteStack"]
  ELSE AssembleOn(UsedBands(bandas, files), files,
                  files[bandas[Min(ExistingAt(bandas, files))]][1])

AssembleReturns(r) ==
  /\ asm' = r
  /\ stack' = IF r.err = "none"
              THEN [exists |-> TRUE, x0 |-> r.grid[1].x0,
                    px |-> [p \in 1..r.grid[1].n |-> "veg"], count |-> Len(r.channels),
                    bands |-> r.used]
              ELSE stack
  /\ UNCHANGED <<bandFiles, rgb, img, featTable, featLast, storeVars, concVars, propVars>>

Assemble(bandas) == AssembleReturns(CriarMultibandaOf(bandas, bandFiles))

AsmInit ==
  /\ segLayer = NoFile
  /\ store = NoFile
  /\ last = NoCall
  /\ ConcIdle
  /\ FeatIdle
  /\ PropIdle
  /\ bandFiles \in [Bands -> {None} \cup {Some(g) : g \in BandGrids}]
  /\ asm = NoAsm
  /\ rgb = NoRgb
  /\ img = NoImg

AsmNext == \E bandas \in BandRequests : Assemble(bandas)

SpecAsm == AsmInit /\ [][AsmNext]_vars

\* the grid of the first requested band whose raster exists
RECURSIVE FirstExistingGrid(_)
FirstExistingGrid(bandas) ==
  IF bandFiles[Head(bandas)] # None THEN bandFiles[Head(bandas)][1]
  ELSE FirstExistingGrid(Tail(bandas))

OnReferenceGrid(bandas, r) ==
  r.err = "none" =>
    /\ r.grid = Some(FirstExistingGrid(bandas))
    /\ \A i \in DOMAIN r.channels : r.channels[i].grid = FirstExistingGrid(bandas)

\* C12: whenever criar_multibanda succeeds, the stack and every band in it
\* are on the grid (CRS, transform, shape) of the first requested band whose
\* raster exists, whatever the grids of the other bands.
C12_AllBandsOnReferenceGrid ==
  \A bandas \in BandRequests : OnReferenceGrid(bandas, CriarMultibandaOf(bandas, bandFiles))

\* a stack was written with a band whose raster is on another grid than the reference
C12_Witness ==
  /\ asm.written
  /\ \E i \in DOMAIN asm.channels : bandFiles[asm.channels[i].band] # asm.grid

\* the requested bands whose raster exists, in request order
RECURSIVE Available(_)
Available(bandas) ==
  IF bandas = <<>> THEN <<>>
  ELSE IF bandFiles[Head(bandas)] # None THEN <<Head(bandas)>> \o Available(Tail(bandas))
       ELSE Available(Tail(bandas))

StackHoldsAvailable(bandas, r) ==
  IF Available(bandas) = <<>> THEN r.err = "IncompleteStack" /\ ~r.written
  ELSE /\ r.err = "none" /\ r.written
       /\ [i \in DOMAIN r.channels |-> r.channels[i].band] = Available(bandas)
       /\ r.used = Available(bandas)

\* C13: criar_multibanda fails with IncompleteStack when no requested band
\* has a raster; otherwise it succeeds and the stack holds exactly the
\* requested bands whose raster exists, in request order, which is also the
\* list of bands it records as used.
C13_StackHoldsAvailableBands ==
  \A bandas \in BandRequests : StackHoldsAvailable(bandas, CriarMultibandaOf(bandas, bandFiles))

\* a stack of one band was written while another band has no raster
C13_Witness ==
  /\ asm.written
  /\ Len(asm.used) = 1
  /\ \E b \in Bands : bandFiles[b] = None

-----------------------------------------------------------------------------
(* services/propagation.py: propagate_labels *)

MaxLabs  == 2   \* most rows of the label file
MaxClock == 1   \* the clock shows the seconds 0..MaxClock
MaxRuns  == 2   \* propagation runs that succeed in one behaviour

Range(s) == { s[i] : i \in DOMAIN s }

Unlabeled == <<"u", "n", "l", "a", "b", "e", "l", "e", "d">>

\* code points, the order sorted() compares strings by
CharCode(ch) ==
  CASE ch = " " -> 32 [] ch = "A" -> 65 [] ch = "U" -> 85 [] ch = "W" -> 87
    [] ch = "a" -> 97 [] ch = "b" -> 98 [] ch = "d" -> 100 [] ch = "e" -> 101
    [] ch = "l" -> 108 [] ch = "n" -> 110 [] ch = "u" -> 117 [] ch = "w" -> 119

RECURSIVE StrLess(_, _)
StrLess(s, t) ==
  IF s = <<>> THEN t # <<>>
  ELSE IF t = <<>> THEN FALSE
  ELSE IF s[1] = t[1] THEN StrLess(Tail(s), Tail(t))
  ELSE CharCode(s[1]) < CharCode(t[1])

RECURSIVE SortedStrs(_)
SortedStrs(S) ==
  IF S = {} THEN <<>>
  ELSE LET m == CHOOSE x \in S : \A y \in S \ {x} : StrLess(x, y)
       IN <<m>> \o SortedStrs(S \ {m})

\* series.fillna("unlabeled").astype(str).str.strip().str.lower()
ClassOf(c) == IF c = None THEN Unlabeled ELSE NormClasse(c[1])

\* sorted([c for c in classes.unique() if c != "unlabeled"])
Uniq(series) == SortedStrs({ ClassOf(series[i]) : i \in DOMAIN series } \ {Unlabeled})

\* faulty variant: the class integers start at 1
MappingFromOne(uniq) ==
  [ c \in Range(uniq) |-> CHOOSE i \in DOMAIN uniq : uniq[i] = c ]

\* {c: i for i, c in enumerate(uniq)}
Mapping(uniq) ==
  [ c \in Range(uniq) |-> (CHOOSE i \in DOMAIN uniq : uniq[i] = c) - 1 ]

\* _encode_labels: y is -1 where the class is "unlabeled"
EncodeWith(series, mapping) ==
  [ y |-> [ i \in DOMAIN series |->
              IF ClassOf(series[i]) = Unlabeled THEN -1 ELSE mapping[ClassOf(series[i])] ],
    mapping |-> mapping ]
EncodeLabels(series) == EncodeWith(series, Mapping(Uniq(series)))

\* _decode_labels: inv.get(int(i), "unlabeled")
DecodeLabels(ids, mapping) ==
  [ i \in DOMAIN ids |->
      IF \E c \in DOMAIN mapping : mapping[c] = ids[i]
      THEN CHOOSE c \in DOMAIN mapping : mapping[c] = ids[i]
      ELSE Unlabeled ]

\* the rows of `right` whose segment_id is sid, in the order of `right`
Matching(right, sid) ==
  SelectRows(right, { j \in DOMAIN right : right[j].segment_id = sid }, 1)

\* np.isfinite over the feature columns _pick_feature_cols takes: the band
\* means and NDVI_mean of DEFAULT_FEATURE_COLS
RowFinite(r) == ~r.bands.nan /\ ~r.nd.nan

\* feats.merge(labs[["segment_id", "classe"]], on="segment_id", how="left"):
\* one row per matching label row, one row with a null classe when none matches
RECURSIVE FeatsMergeLabs(_, _, _)
FeatsMergeLabs(feats, labs, k) ==
  IF k > Len(feats) THEN <<>>
  ELSE LET m == Matching(labs, feats[k].segment_id)
           finite == RowFinite(feats[k])
           joined ==
             IF m = <<>>
             THEN << [segment_id |-> feats[k].segment_id, finite |-> finite, classe |-> None] >>
             ELSE [ j \in DOMAIN m |->
                      [segment_id |-> feats[k].segment_id, finite |-> finite,
                       classe |-> m[j].classe] ]
       IN joined \o FeatsMergeLabs(feats, labs, k + 1)

\* lines 81-93: the joined table, the encoding of its classe column, and the
\* segment ids and targets of the rows whose features are all finite
EncodedRows(df, enc) ==
  LET valid == { i \in DOMAIN df : df[i].finite }
      kept == SelectRows([ i \in DOMAIN df |-> [segment_id |-> df[i].segment_id, y |-> enc.y[i]] ],
                         valid, 1)
  IN [ segids |-> [ i \in DOMAIN kept |-> kept[i].segment_id ],
       y |-> [ i \in DOMAIN kept |-> kept[i].y ],
       mapping |-> enc.mapping ]
EncodedOf(df) == EncodedRows(df, EncodeLabels([ i \in DOMAIN df |-> df[i].classe ]))
Prepared(feats, labs) == EncodedOf(FeatsMergeLabs(feats, labs, 1))

\* the classes model.fit finds in y
FitClasses(y) == Range(y) \ {-1}

\* model.transduction_: one class of classes_ for every fitted row
Transductions(y) == [ DOMAIN y -> FitClasses(y) ]

\* StandardScaler.fit_transform refuses a table of no rows; fit fails at the
\* argmax over no class when no fitted row is labeled
FitFails(y) == Len(y) = 0 \/ FitClasses(y) = {}

\* lines 113-116: <<correct, labeled>> stands for the fraction correct/labeled
Accuracy(y, yPred) ==
  LET labeled == { i \in DOMAIN y : y[i] >= 0 }
  IN IF Cardinality(labeled) >= 2 /\ Cardinality({ y[i] : i \in labeled }) >= 2
     THEN Some(<< Cardinality({ i \in labeled : yPred[i] = y[i] }), Cardinality(labeled) >>)
     ELSE None

\* pd.DataFrame({"segment_id": segids, "classe_pred": rotulos})
OutRows(segids, rotulos) ==
  [ i \in DOMAIN segids |-> [segment_id |-> segids[i], classe_pred |-> rotulos[i]] ]

\* gseg.merge(out, on="segment_id", how="left") and labs.merge(out, ...):
\* every row of the left table, with a null classe_pred when out has no match
PredFields(m) ==
  IF m = <<>> THEN << [classe_pred |-> None] >>
  ELSE [ j \in DOMAIN m |-> [classe_pred |-> Some(m[j].classe_pred)] ]
RECURSIVE MergeOut(_, _, _)
MergeOut(left, out, k) ==
  IF k > Len(left) THEN <<>>
  ELSE LET p == PredFields(Matching(out, left[k].segment_id))
       IN [ j \in DOMAIN p |-> [ f \in DOMAIN left[k] \cup {"classe_pred"} |->
                                   IF f = "classe_pred" THEN p[j].classe_pred ELSE left[k][f] ] ]
          \o MergeOut(left, out, k + 1)

\* lines 100-105
MethodOf(method) == IF method = "label_propagation" THEN method ELSE "label_spreading"

\* f"propagado_{method}_{ts}.geojson", ts = strftime("%Y%m%d_%H%M%S")
OutName(method, now) == <<"propagado", MethodOf(method), now>>

PropFailed(err, fitted) ==
  [err |-> err, fitted |-> fitted, rotulos |-> <<>>, rows |-> <<>>, acc |-> None,
   n_total |-> 0, n_labeled |-> 0, labels |-> {}, classes |-> <<>>]

\* the labeled rows of the fit: the segment and the class asserted for it
LabelsOf(prep) ==
  { <<prep.segids[i], DecodeLabels(prep.y, prep.mapping)[i]>> :
      i \in { k \in DOMAIN prep.y : prep.y[k] >= 0 } }

\* lines 111-131 and the return value
Fitted(prep, yPred, layer, labs) ==
  LET out == OutRows(prep.segids, DecodeLabels(yPred, prep.mapping))
  IN [err |-> "none", fitted |-> TRUE,
      rotulos |-> DecodeLabels(yPred, prep.mapping),
      rows |-> IF layer.exists THEN MergeOut(layer.rows, out, 1) ELSE MergeOut(labs.rows, out, 1),
      acc |-> Accuracy(prep.y, yPred),
      n_total |-> Len(prep.segids),
      n_labeled |-> Cardinality({ i \in DOMAIN prep.y : prep.y[i] >= 0 }),
      labels |-> LabelsOf(prep),
      classes |-> SortedStrs(DOMAIN prep.mapping)]

\* faulty variant: only the feature table is looked for
MissingFeatsOnly(feats, labs) == ~feats.exists

\* lines 66-69
Missing(feats, labs) == ~feats.exists \/ ~labs.exists

\* the outcomes of propagate_labels on the three files
PropagateOutcomes(feats, labs, layer) ==
  IF Missing(feats, labs) THEN { PropFailed("FileNotFoundError", FALSE) }
  ELSE LET prep == Prepared(feats.rows, labs.rows)
       IN IF FitFails(prep.y) THEN { PropFailed("ValueError", FALSE) }
          ELSE { Fitted(prep, yPred, layer, labs) : yPred \in Transductions(prep.y) }

\* faulty variant: the run writes its labels over the Sample Store
PropagateReplacesStore ==
  /\ store' = labsFile
  /\ UNCHANGED <<labsFile, clock, asmVars, segLayer, last, concVars, featVars>>

\* propagate_labels writes gout to out_path and no other file
PropagateLeaves == UNCHANGED <<labsFile, clock, asmVars, storeVars, concVars, featVars>>

PropagateReturns(r, name) ==
  /\ propLast' = [op |-> "propagate", err |-> r.err, fitted |-> r.fitted,
                  rotulos |-> r.rotulos, out |-> r.rows,
                  acc |-> r.acc, n_total |-> r.n_total, n_labeled |-> r.n_labeled,
                  labels |-> r.labels,
                  name |-> IF r.err = "none" THEN Some(name) ELSE None,
                  runs |-> IF r.err = "none" THEN propLast.runs + 1 ELSE propLast.runs]
  /\ propFiles' = IF r.err = "none" THEN (name :> r.rows) @@ propFiles ELSE propFiles
  /\ PropagateLeaves

PropagateLabels(method) ==
  /\ propLast.runs < MaxRuns
  /\ \E r \in PropagateOutcomes(featTable, labsFile, segLayer) :
       PropagateReturns(r, OutName(method, clock))

\* a second passes
Tick ==
  /\ clock < MaxClock
  /\ clock' = clock + 1
  /\ UNCHANGED <<labsFile, propFiles, propLast, asmVars, storeVars, concVars, featVars>>

Methods == {"label_propagation", "label_spreading", "knn"}

\* a record of build_features: "veg" has finite statistics, "nodata" only NaN
PropFeatureRow(s, kind) ==
  [segment_id |-> s,
   bands |-> IF kind = "veg" THEN StatsOfCount(1) ELSE NaNStats,
   nd    |-> IF kind = "veg" THEN StatsOfCount(1) ELSE NaNStats,
   evi   |-> IF kind = "veg" THEN StatsOfCount(1) ELSE NaNStats]

\* feature tables as build_features writes them: ascending, one row per label
FeatTables ==
  { [ i \in DOMAIN SortedSeq(ids) |-> PropFeatureRow(SortedSeq(ids)[i], kinds[SortedSeq(ids)[i]]) ] :
      ids \in (SUBSET SegIds) \ {{}}, kinds \in [SegIds -> {"veg", "nodata"}] }

\* the label file holds the features the client posted, as posted
LabClasses == { Some(c) : c \in RawClasses } \cup { None }
LabFiles == SeqsUpTo([segment_id : InputIds, classe : LabClasses], MaxLabs) \ { <<>> }

PropInit ==
  /\ featTable \in { NoFile } \cup { File(t) : t \in FeatTables }
  /\ labsFile \in { NoFile } \cup { File(l) : l \in LabFiles }
  /\ segLayer \in { NoFile, File(LayerRows) }
  /\ propFiles = <<>>
  /\ clock = 0
  /\ propLast = NoPropCall
  /\ store = NoFile
  /\ last = NoCall
  /\ ConcIdle
  /\ stack = NoStack
  /\ featLast = NoFeatCall
  /\ AsmIdle

DoPropagate == \E method \in Methods : PropagateLabels(method)

PropNext == DoPropagate \/ Tick

SpecProp == PropInit /\ [][PropNext]_vars

-----------------------------------------------------------------------------
(* Propagation claims *)

PropSucceeded == propLast.op = "propagate" /\ propLast.err = "none"

\* the rows of the written result file for segment s
ResultsFor(s) ==
  { i \in DOMAIN propLast.out : propLast.out[i].segment_id = s }

NoneMissing == \A s \in IdsOf(featTable.rows) : ResultsFor(s) # {}
NoneTwice == \A s \in IdsOf(featTable.rows) : Cardinality(ResultsFor(s)) <= 1
NoneForeign == \A i \in DOMAIN propLast.out : propLast.out[i].segment_id \in IdsOf(featTable.rows)

\* C14: the output of a successful propagate run holds exactly one result per
\* segment_id of the feature table: none missing, none twice, and none for a
\* segment_id the feature table does not hold, also when the label file lists
\* a segment_id more than once.
C14_OneResultPerFeatureRow ==
  PropSucceeded => NoneMissing /\ NoneTwice /\ NoneForeign

\* the feature rows with a value that is not finite
NonFiniteIds == { featTable.rows[i].segment_id : i \in { k \in DOMAIN featTable.rows : ~RowFinite(featTable.rows[k]) } }

\* a written row that predicts "unlabeled" with the largest normalized uncertainty
IsUnlabeledResult(row) ==
  /\ row.classe_pred = Some(Unlabeled)
  /\ "uncertainty" \in DOMAIN row
  /\ row.uncertainty = 1

\* C15: a feature row with a value that is not finite is left out of the fit
\* and still has a result in the output, with the predicted class "unlabeled"
\* and the maximal uncertainty.
C15_NonFiniteRowGetsUnlabeled ==
  PropSucceeded =>
    /\ Range(Prepared(featTable.rows, labsFile.rows).segids) \cap NonFiniteIds = {}
    /\ \A s \in NonFiniteIds : \E i \in ResultsFor(s) : IsUnlabeledResult(propLast.out[i])

\* the classe column _encode_labels is given by a run on the current files
SeenSeries ==
  IF featTable.exists /\ labsFile.exists
  THEN LET df == FeatsMergeLabs(featTable.rows, labsFile.rows, 1)
       IN [ i \in DOMAIN df |-> df[i].classe ]
  ELSE <<>>

\* decode(encode(label)) for the label at position i of the series
RoundTrip(series, enc, i) == DecodeLabels(<<enc.y[i]>>, enc.mapping)[1]

ClassIntegers(enc) == { enc.mapping[c] : c \in DOMAIN enc.mapping }

\* the class integers are 0..n-1, one per class, and none is the sentinel -1
ContiguousFromZero(enc) ==
  /\ ClassIntegers(enc) = 0..(Cardinality(DOMAIN enc.mapping) - 1)
  /\ \A c, d \in DOMAIN enc.mapping : enc.mapping[c] = enc.mapping[d] => c = d
  /\ -1 \notin ClassIntegers(enc)
  /\ \A i \in DOMAIN enc.y : enc.y[i] = -1 \/ enc.y[i] \in ClassIntegers(enc)

RoundTripsExactly(series, enc) ==
  \A i \in DOMAIN series : series[i] # None => RoundTrip(series, enc, i) = series[i][1]

RoundTripsToCanon(series, enc) ==
  \A i \in DOMAIN series : series[i] # None => RoundTrip(series, enc, i) = Canon(series[i][1])

FittedTargets == Prepared(featTable.rows, labsFile.rows).y
LabeledRows == { i \in DOMAIN FittedTargets : FittedTargets[i] >= 0 }

\* at least two labeled fitted rows, of at least two classes
TwoClassesLabeled ==
  /\ Cardinality(LabeledRows) >= 2
  /\ \E i, j \in LabeledRows : FittedTargets[i] # FittedTargets[j]

\* the labeled fitted rows whose predicted class is their asserted class
Consistent ==
  { i \in LabeledRows :
      propLast.rotulos[i] =
        DecodeLabels(FittedTargets, Prepared(featTable.rows, labsFile.rows).mapping)[i] }

\* the accuracy of a successful run is Consistent / LabeledRows when the labels
\* span two classes, and None otherwise
AccuracyAsClaimed ==
  IF TwoClassesLabeled
  THEN /\ propLast.acc = Some(<<Cardinality(Consistent), Cardinality(LabeledRows)>>)
       /\ 0 <= propLast.acc[1][1]
       /\ propLast.acc[1][1] <= propLast.acc[1][2]
  ELSE propLast.acc = None

\* C17: a propagate run on an existing feature table and label file succeeds;
\* it reports an accuracy exactly when at least two labeled fitted rows span at
\* least two classes, the fraction of the labeled rows predicted as asserted,
\* which is in [0,1]; otherwise it reports None.
C17_AccuracyWhenTwoClasses ==
  (propLast.op = "propagate" /\ featTable.exists /\ labsFile.exists) =>
    /\ propLast.err = "none"
    /\ AccuracyAsClaimed

\* C18: a propagate call made while the feature table or the label file does
\* not exist fails with FileNotFoundError before any model is fitted, and
\* writes no result file.
C18_MissingPrerequisite ==
  [][ (propLast' # propLast /\ (~featTable.exists \/ ~labsFile.exists)) =>
        /\ propLast'.op = "propagate"
        /\ propLast'.err = "FileNotFoundError"
        /\ ~propLast'.fitted
        /\ propFiles' = propFiles ]_vars

\* a call failed on a feature table without a label file
C18_Witness ==
  /\ propLast.op = "propagate"
  /\ propLast.err = "FileNotFoundError"
  /\ featTable.exists
  /\ ~labsFile.exists
  /\ propFiles = <<>>

\* C19: every successful propagate run writes its result under a name no
\* earlier run used, so the runs that succeeded so far left one result file
\* each, also when two runs of one method fall into the same clock second.
C19_FreshResultName ==
  Cardinality(DOMAIN propFiles) = propLast.runs

\* the score columns a result is to carry next to classe_pred
HasScores(row) == {"entropy", "margin", "uncertainty"} \subseteq DOMAIN row

\* the normalized uncertainty of row i: within 0..1, 1 at the largest entropy
\* of the run, 0 everywhere when that entropy is 0
NormalizedAt(rows, i) ==
  LET maxEntropy == Max({ rows[j].entropy : j \in DOMAIN rows })
  IN /\ 0 <= rows[i].uncertainty
     /\ rows[i].uncertainty <= 1
     /\ maxEntropy = 0 => rows[i].uncertainty = 0
     /\ (maxEntropy > 0 /\ rows[i].entropy = maxEntropy) => rows[i].uncertainty = 1

\* C20: every row of a written result carries, next to the predicted class, an
\* entropy, a margin and a normalized uncertainty; the normalized uncertainty
\* is in [0,1], 1 where the entropy is the run's maximum, and 0 for every row
\* when that maximum is 0.
C20_ResultsCarryUncertainty ==
  PropSucceeded =>
    \A i \in DOMAIN propLast.out :
      /\ "classe_pred" \in DOMAIN propLast.out[i]
      /\ HasScores(propLast.out[i])
      /\ NormalizedAt(propLast.out, i)

-----------------------------------------------------------------------------
(* services/segmentation.py: _percentile_scale_stack and _stretch8 *)

MaxPixels == 3   \* most pixels of a stretched array
MaxValue  == 2   \* pixel values are 0..MaxValue, or NaN

\* a pixel value: Some(v), or None for NaN
PixelValues == { Some(v) : v \in 0..MaxValue } \cup { None }
PixelArrays == SeqsUpTo(PixelValues, MaxPixels) \ { <<>> }

\* (p_low, p_high) as the callers pass them, and a pair whose percentiles
\* coincide, which sends every array to the extremes
PercentilePairs == { <<2, 98>>, <<50, 50>> }

FiniteValues(px) == { px[i][1] : i \in { k \in DOMAIN px : px[k] # None } }

\* the finite values of the array in ascending order, with their repetitions
RECURSIVE SortedFinite(_, _)
SortedFinite(px, v) ==
  IF v > MaxValue + 1 THEN <<>>
  ELSE [ i \in 1..Cardinality({ k \in DOMAIN px : px[k] = Some(v) }) |-> v ]
       \o SortedFinite(px, v + 1)

\* np.nanpercentile(arr, p), linear interpolation, in hundredths; None is nan
PercentileOf(sorted, p) ==
  IF sorted = <<>> THEN None
  ELSE LET rank == p * (Len(sorted) - 1)
           k == (rank \div 100) + 1
           f == rank % 100
       IN Some(100 * sorted[k] + (IF f > 0 THEN f * (sorted[k + 1] - sorted[k]) ELSE 0))

\* np.nanmin, np.nanmax in hundredths; nan for an array of NaN only
NanMin(px) == IF FiniteValues(px) = {} THEN None ELSE Some(100 * Min(FiniteValues(px)))
NanMax(px) == IF FiniteValues(px) = {} THEN None ELSE Some(100 * Max(FiniteValues(px)))

\* lo, hi after the fallback to the extremes; hi <= lo is false for nan
Ordered(lo, hi) == lo # None /\ hi # None /\ hi[1] > lo[1]
LimitsFrom(px, lo, hi) ==
  IF Ordered(lo, hi) THEN [lo |-> lo, hi |-> hi] ELSE [lo |-> NanMin(px), hi |-> NanMax(px)]
Limits(px, pp) ==
  LimitsFrom(px, PercentileOf(SortedFinite(px, 0), pp[1]), PercentileOf(SortedFinite(px, 0), pp[2]))

\* hi <= lo
Flat(lim) == lim.lo # None /\ lim.hi # None /\ lim.hi[1] <= lim.lo[1]

\* faulty variant: the quotient is not clipped
ClipNone(num, den) == num

\* np.clip(x, 0, 1) on the quotient num / den
Clip(num, den) == IF num < 0 THEN 0 ELSE IF num > den THEN den ELSE num

\* (band - lo) / (hi - lo + 1e-6) clipped: the fraction num / (den + 1e-6)
Scaled(x, lim) ==
  [num |-> Clip(100 * x - lim.lo[1], lim.hi[1] - lim.lo[1]), den |-> lim.hi[1] - lim.lo[1]]

Zero == [num |-> 0, den |-> 1]

\* one channel of _percentile_scale_stack: float32 values, None for NaN
ScaleWith(px, lim) ==
  IF Flat(lim) THEN [ i \in DOMAIN px |-> Some(Zero) ]
  ELSE IF lim.lo = None THEN [ i \in DOMAIN px |-> None ]
  ELSE [ i \in DOMAIN px |-> IF px[i] = None THEN None ELSE Some(Scaled(px[i][1], lim)) ]
ScaleBand(px, pp) == ScaleWith(px, Limits(px, pp))

\* (x * 255).astype(np.uint8): the floor of 255 * num / (den + 1e-6), which is
\* one less than 255 * num / den where that is a whole number unless the
\* float sum den + 1e-6 rounds to den
Quantise(q, absorbed) ==
  LET exact == 255 * q.num
      whole == exact \div q.den
  IN (IF ~absorbed /\ exact % q.den = 0 /\ q.num > 0 THEN whole - 1 ELSE whole) % 256

\* _stretch8; the cast of NaN to uint8 is whatever the platform gives
Stretch8With(px, lim, absorbed, nanCast) ==
  IF Flat(lim) THEN [ i \in DOMAIN px |-> 0 ]
  ELSE IF lim.lo = None THEN [ i \in DOMAIN px |-> nanCast ]
  ELSE [ i \in DOMAIN px |->
           IF px[i] = None THEN nanCast ELSE Quantise(Scaled(px[i][1], lim), absorbed) ]
Stretch8(px, pp, absorbed, nanCast) == Stretch8With(px, Limits(px, pp), absorbed, nanCast)

NanCasts == {0, 255}

StretchDone(px, scaled, u8) ==
  /\ img' = [px |-> px, done |-> TRUE, scaled |-> scaled, u8 |-> u8]
  /\ UNCHANGED <<bandFiles, asm, rgb, propVars, storeVars, concVars, featVars>>

\* both stretches run on the array
Stretch(pp, absorbed, nanCast) ==
  /\ ~img.done
  /\ StretchDone(img.px, ScaleBand(img.px, pp), Stretch8(img.px, pp, absorbed, nanCast))

StretchInit ==
  /\ StoreInit
  /\ ConcIdle
  /\ FeatIdle
  /\ PropIdle
  /\ bandFiles = [b \in {"B02", "B04", "B08"} |-> None]
  /\ asm = NoAsm
  /\ rgb = NoRgb
  /\ img \in { [NoImg EXCEPT !.px = px] : px \in PixelArrays }

StretchNext ==
  \E pp \in PercentilePairs, absorbed \in BOOLEAN, nanCast \in NanCasts :
    Stretch(pp, absorbed, nanCast)

SpecStretch == StretchInit /\ [][StretchNext]_vars

\* a <= b on two float32 fractions
FracLeq(a, b) == a.num * b.den <= b.num * a.den

\* the pairs of pixels with values a <= b
OrderedPairs == { <<i, j>> \in (DOMAIN img.px) \X (DOMAIN img.px) :
                    img.px[i] # None /\ img.px[j] # None /\ img.px[i][1] <= img.px[j][1] }

Constant == \A i, j \in DOMAIN img.px : img.px[i] # None /\ img.px[i] = img.px[j]

\* C21: both percentile stretches are monotonic: for two pixels of the array
\* with values a <= b the stretched a is <= the stretched b; on an array of
\* equal values both return zeros of the same shape.
C21_StretchMonotonic ==
  img.done =>
    /\ DOMAIN img.scaled = DOMAIN img.px
    /\ DOMAIN img.u8 = DOMAIN img.px
    /\ \A pr \in OrderedPairs :
         /\ img.scaled[pr[1]] # None /\ img.scaled[pr[2]] # None
         /\ FracLeq(img.scaled[pr[1]][1], img.scaled[pr[2]][1])
         /\ img.u8[pr[1]] <= img.u8[pr[2]]
    /\ Constant => \A i \in DOMAIN img.px : img.scaled[i] = Some(Zero) /\ img.u8[i] = 0

\* an array with a value below, at and above the limits was stretched to
\* distinct values
C21_Witness ==
  /\ img.done
  /\ \E i, j \in DOMAIN img.px : img.u8[i] = 0 /\ img.u8[j] > 200
  /\ \E i \in DOMAIN img.px : img.px[i] = None

\* the path criar_multibanda is to take for a band, from the grids alone
PathByGrid(src, ref) == IF src = ref THEN {"native"} ELSE {"vrt", "fallback"}

PathsAsClaimed(bandas, r) ==
  r.err = "none" =>
    \A i \in DOMAIN r.channels :
      LET src == bandFiles[r.channels[i].band][1]
      IN /\ r.channels[i].path \in PathByGrid(src, FirstExistingGrid(bandas))
         /\ r.channels[i].path = "fallback" => src.n # FirstExistingGrid(bandas).n

\* C22: criar_multibanda reads a band unchanged exactly when its CRS,
\* transform and shape equal the reference grid and resamples every other
\* band; the fallback runs only for a band of another shape; so the stack of
\* three rasters with identical grids has three unchanged bands.
C22_PathByGrid ==
  /\ \A bandas \in BandRequests : PathsAsClaimed(bandas, CriarMultibandaOf(bandas, bandFiles))
  /\ (asm.err = "none" /\ \A b, c \in Bands : bandFiles[b] = bandFiles[c]) =>
       \A i \in DOMAIN asm.channels : asm.channels[i].path = "native"

\* a stack of the three bands was written from three rasters on one grid
C22_Witness ==
  /\ asm.written
  /\ Len(asm.channels) = 3
  /\ \A b, c \in Bands : bandFiles[b] = bandFiles[c]
  /\ \A i \in DOMAIN asm.channels : asm.channels[i].path = "native"

-----------------------------------------------------------------------------
(* services/segmentation.py: criar_rgb_8bit *)

\* BANDAS_RGB
BandasRgb == <<"B04", "B03", "B02">>

\* criar_rgb_8bit: without any of the bands it returns a message; otherwise it
\* stacks the bands that exist, each read on the grid of the first, and writes
\* the composite
CriarRgb8bitOf(bandas, files) ==
  IF ExistingAt(bandas, files) = {}
  THEN [called |-> TRUE, written |-> FALSE, used |-> <<>>]
  ELSE [called |-> TRUE, written |-> TRUE, used |-> UsedBands(bandas, files)]

CriarRgb8bit ==
  /\ rgb' = CriarRgb8bitOf(BandasRgb, bandFiles)
  /\ UNCHANGED <<bandFiles, asm, img, propVars, storeVars, concVars, featVars>>

RgbInit ==
  /\ StoreInit
  /\ ConcIdle
  /\ FeatIdle
  /\ PropIdle
  /\ bandFiles \in [Range(BandasRgb) -> {None} \cup {Some(g) : g \in BandGrids}]
  /\ asm = NoAsm
  /\ rgb = NoRgb
  /\ img = NoImg

SpecRgb == RgbInit /\ [][CriarRgb8bit]_vars

RgbBandsPresent == { b \in Range(BandasRgb) : bandFiles[b] # None }

\* C23: criar_rgb_8bit writes the composite only when all three of its bands
\* have a raster; with none, one or two of them it writes no file and returns.
C23_CompositeNeedsThreeBands ==
  rgb.called => (rgb.written <=> Cardinality(RgbBandsPresent) = 3)

\* the last segmentation run was left with no polygon after the validity filter
SegmentedEmpty ==
  /\ featLast.op = "segment"
  /\ \/ featLast.err = "ValueError"
     \/ featLast.err = "none" /\ segLayer = File(<<>>)

\* C24: a segmentation run whose validated set of polygons is empty fails
\* with SegmentationEmpty; it neither reports success nor leaves a segment
\* layer of no rows.
C24_EmptySegmentationFails ==
  SegmentedEmpty =>
    /\ featLast.err = "SegmentationEmpty"
    /\ ~(segLayer.exists /\ segLayer.rows = <<>>)

\* C25: after any sequence of stack, segmentation and build_features runs,
\* the segment_id values of the persisted feature table are segment_id values
\* of the persisted segment layer.
C25_FeatureIdsWithinCurrentLayer ==
  featTable.exists => IdsOf(featTable.rows) \subseteq IdsOf(segLayer.rows)

-----------------------------------------------------------------------------
(* The Sample Store and propagation in one project *)

\* upsert_samples_from_ids with one {segment_id, classe}
DoUpsertOne == \E s \in InputIds, c \in RawClasses : Upsert(OneInput(Bare(s, c)))

LabInit ==
  /\ segLayer = File(LayerRows)
  /\ store = NoFile
  /\ last = NoCall
  /\ ConcIdle
  /\ stack = NoStack
  /\ featTable = File([ s \in SegIds |-> PropFeatureRow(s, "veg") ])
  /\ featLast = NoFeatCall
  /\ AsmIdle
  /\ labsFile \in { NoFile } \cup { File(<<l>>) : l \in [segment_id : InputIds, classe : LabClasses] }
  /\ propFiles = <<>>
  /\ clock = 0
  /\ propLast = NoPropCall

LabNext == DoUpsertOne \/ DoDelete \/ DoPropagate

SpecLab == LabInit /\ [][LabNext]_vars

\* the Samples of the store that label a row of the feature table
StoreLabels ==
  { pr \in Pairs(store) : pr[1] \in IdsOf(featTable.rows) }

\* a propagate call has just returned
PropagateStep == propLast' # propLast

\* C26: the labels a propagate run fits are the Samples the Sample Store
\* holds when it runs: what upsert wrote and delete did not remove.
C26_LabelsAreStoreSamples ==
  [][ (PropagateStep /\ propLast'.err = "none") => propLast'.labels = StoreLabels ]_vars

\* C27: a propagate run, successful or failed, leaves the Sample Store, the
\* feature table and the segment layer as they were: every Sample present
\* before the run is present and equal after it.
C27_PropagateLeavesStore ==
  [][ PropagateStep => store' = store /\ featTable' = featTable /\ segLayer' = segLayer ]_vars

\* a run succeeded while the store held a Sample
C27_Witness ==
  /\ PropSucceeded
  /\ store.exists
  /\ store.rows # <<>>

\* C28: an upsert call that fails, on whichever input of its batch, leaves
\* the stored Sample set as it was before the call.
C28_FailedUpsertLeavesStore ==
  [][ (last'.op = "upsert" /\ last'.err # "none") => store' = store ]_storeVars

\* an upsert failed on a store that holds Samples
C28_Witness ==
  /\ last.op = "upsert"
  /\ last.err = "UnknownSegment"
  /\ store.exists
  /\ store.rows # <<>>

\* C29: with the segment layer held fixed, every Sample of the store has a
\* segment_id of the layer, Samples upserted with their own geometry included.
C29_SamplesNameSegments ==
  IdsOf(store.rows) \subseteq IdsOf(segLayer.rows)

-----------------------------------------------------------------------------
(* processar_segmentacao_completa assembles the stack from the bands found  *)
(* on disk; build_features then reads the stack by band name.               *)

\* every band raster of a download is on the grid of the area of interest
DownloadGrid == [crs |-> "utm", x0 |-> 0, n |-> NPix]

\* bandas_disponiveis: the bands of BANDAS_TODAS whose raster exists
BandasDisponiveis(files) == UsedBands(BandasTodas, files)

\* raise RuntimeError when no band is on disk, criar_multibanda otherwise
AssembleAvailable ==
  /\ BandasDisponiveis(bandFiles) # <<>>
  /\ Assemble(BandasDisponiveis(bandFiles))

BandsInit ==
  /\ segLayer = NoFile
  /\ store = NoFile
  /\ last = NoCall
  /\ ConcIdle
  /\ FeatIdle
  /\ PropIdle
  /\ bandFiles \in [Range(BandasTodas) -> {None, Some(DownloadGrid)}]
  /\ asm = NoAsm
  /\ rgb = NoRgb
  /\ img = NoImg

BandsNext == AssembleAvailable \/ DoSegment \/ BuildFeatures

SpecBands == BandsInit /\ [][BandsNext]_vars

\* build_features has read the stack that assemble built
ReadAssembled ==
  /\ featLast.op = "build"
  /\ featLast.err \in {"none", "IndexError"}
  /\ asm.written

\* the statistics named after band b are computed, from the channel that holds b
ComputedFromOwnChannel(b) ==
  /\ featLast.err = "none"
  /\ \E k \in DOMAIN featLast.reads : featLast.reads[k].name = b
  /\ \A k \in DOMAIN featLast.reads :
       featLast.reads[k].name = b => featLast.reads[k].holds = b

\* C30: for a stack assembled from any non-empty subset of the bands,
\* build_features computes the statistics it names after a band of the stack
\* from the channel that holds that band.
C30_StatisticsFromOwnChannel ==
  ReadAssembled => \A b \in Range(asm.used) : ComputedFromOwnChannel(b)

\* every read build_features makes reaches the channel of the band it names
ReadsOwnChannel ==
  ReadAssembled =>
    \A k \in DOMAIN featLast.reads : featLast.reads[k].name = featLast.reads[k].holds

\* the full stack is read band by band
FullStackRead ==
  (ReadAssembled /\ asm.used = BandasTodas) => \A b \in Range(BandasTodas) : ComputedFromOwnChannel(b)

====
